---- MODULE Spec2Model ----
(***************************************************************************)
(* A model of package elfutils (pkg/symbol/elfutils/elfutils.go): the      *)
(* path-taking detectors HasDWARF, IsSymbolizableGoObjFile, IsGoObjFile,   *)
(* HasSymbols, ValidateFile, and the stream validator ValidateHeader.      *)
(*                                                                         *)
(* A call is a small process: pc[p] is the position of caller p inside the *)
(* function it called, loc[..] holds the locals of that activation,        *)
(* result[p] the value returned.  Byte streams are sequences of 0..255 and *)
(* the header is decoded from them field by field, as binary.Read does.    *)
(***************************************************************************)
EXTENDS Integers, Sequences, FiniteSets, TLC

VARIABLES
    callers,      \* the callers that exist in this run
    pc,           \* pc[p]: position of caller p's current call
    op,           \* op[p]: the exported function caller p is executing
    arg,          \* arg[p]: its argument (the file at `path`, or the reader r)
    pos,          \* pos[p]: bytes of arg[p] consumed from caller p's reader
    loc,          \* loc[k]: the locals of the activation in frame k
    result,       \* result[p]: the (bool, error) the call returned
    opens,        \* opens[p]: elf.Open successes during the current call
    closes,       \* closes[p]: f.Close calls during the current call
    dwarfSuffix   \* the package-level variable of the same name (a function)

vars == <<callers, pc, op, arg, pos, loc, result, opens, closes, dwarfSuffix>>

(***************************************************************************)
(* Bounds of the model.                                                    *)
(***************************************************************************)
NCallers == 2          \* concurrent callers in SpecConc
MaxShnum == 2          \* section counts / string-table indexes tried: 0..MaxShnum
MaxExtra == 2          \* bytes a stream may carry beyond the 64 that are read
MaxSections == 3       \* sections of a file handed to the Go / symbol detectors
MaxDwarfSections == 2  \* sections of a file handed to HasDWARF
MaxSyms == 1           \* symbols in a readable symbol table

Min(a, b) == IF a < b THEN a ELSE b

Take(s, n) == SubSeq(s, 1, Min(n, Len(s)))

Zeros(n) == [i \in 1..n |-> 0]

Reverse(s) == [i \in 1..Len(s) |-> s[Len(s) + 1 - i]]

\* All sequences over S of length at most n.
SeqsUpTo(S, n) == UNION {[1..k -> S] : k \in 0..n}

(***************************************************************************)
(* Results.  val is the bool ("none" for the functions that return only an *)
(* error), err the kind of error returned ("nil" for no error).            *)
(***************************************************************************)
Ret(v, e) == [val |-> v, err |-> e]

NoResult == Ret("none", "pending")

\* The errors that come from reading the stream rather than from its content:
\* io.EOF, io.ErrUnexpectedEOF, and whatever error the reader itself returned.
ReadErrors == {"EOF", "ErrUnexpectedEOF", "reader"}

(***************************************************************************)
(* debug/elf constants the package uses, and the sizes in ValidateHeader.  *)
(***************************************************************************)
ELFCLASS32 == 1
ELFCLASS64 == 2
ELFDATA2LSB == 1
ELFDATA2MSB == 2
EV_CURRENT == 1
EI_CLASS == 4
EI_DATA == 5
EI_VERSION == 6
IdentSize == 16
Header32Size == 52
Header64Size == 64

ElfMagic == <<127, 69, 76, 70>>      \* "\x7fELF"

ReadLimitDoubled == Header64Size * 2

\* io.LimitReader(r, 64): the most ValidateHeader takes from the stream.
HeaderReadLimit == 64

(***************************************************************************)
(* Fixed-width unsigned integers.  A 16-bit field is a number; the 32- and *)
(* 64-bit fields are kept as their bytes, most significant first, because  *)
(* the code only compares them (with a version below 256, with zero) and   *)
(* their values do not fit TLC's integers.                                 *)
(***************************************************************************)
\* The n bytes at offset off (0-based) of b, most significant first, as
\* binary.LittleEndian / binary.BigEndian read them.
FieldBytes(b, off, n, order) ==
    LET raw == SubSeq(b, off + 1, off + n)
    IN IF order = "LE" THEN Reverse(raw) ELSE raw

Uint16(b, off, order) ==
    LET d == FieldBytes(b, off, 2, order) IN d[1] * 256 + d[2]

\* digits (most significant first) equal the small number v (0 <= v < 256).
DigitsEqual(d, v) == d = Zeros(Len(d) - 1) \o <<v>>

\* binary.Read into elf.Header32 / elf.Header64: the three fields the code
\* uses and the version, at the offsets of the struct layout.
DecodeHeader32(b, order) ==
    [ Version  |-> FieldBytes(b, 20, 4, order),
      Shoff    |-> FieldBytes(b, 32, 4, order),
      Shnum    |-> Uint16(b, 48, order),
      Shstrndx |-> Uint16(b, 50, order) ]

DecodeHeader64(b, order) ==
    [ Version  |-> FieldBytes(b, 20, 4, order),
      Shoff    |-> FieldBytes(b, 40, 8, order),
      Shnum    |-> Uint16(b, 60, order),
      Shstrndx |-> Uint16(b, 62, order) ]

\* io.ReadFull(r, buf[:size]) on a reader holding the bytes src.
ReadFullErr(src, size) ==
    IF Len(src) >= size THEN "nil"
    ELSE IF Len(src) = 0 THEN "EOF" ELSE "ErrUnexpectedEOF"

\* limitio.NewWriter(buf, 16, true).Write(p): what fits below the limit is
\* appended, the rest is dropped without an error.
LimitWrite(buf, p) == buf \o Take(p, IdentSize - Len(buf))

\* buf.Read(ident[:]) into the zeroed array ident: the bytes the buffer holds,
\* the rest of the array left zero.  (An empty buffer is io.EOF, see below.)
ReadIdent(buf) == Take(buf, IdentSize) \o Zeros(IdentSize - Min(Len(buf), IdentSize))

\* line 258: shoff == 0 && shnum != 0
ShoffMissing(shoffIsZero, shnum) == shoffIsZero /\ shnum # 0

StrndxOutOfRangeOffByOne(shnum, shstrndx) == shnum > 0 /\ shstrndx > shnum

\* line 262: shnum > 0 && shstrndx >= shnum
StrndxOutOfRange(shnum, shstrndx) == shnum > 0 /\ shstrndx >= shnum

\* Lines 230-270: decode the file header for class c in byte order `order`
\* from the bytes b that io.ReadAll returned, and check it.
CheckFileHeader(c, order, fv, b) ==
    LET src  == IF c = ELFCLASS32 THEN Take(b, Header32Size) ELSE b
        size == IF c = ELFCLASS32 THEN Header32Size ELSE Header64Size
        hdr  == IF c = ELFCLASS32 THEN DecodeHeader32(src, order)
                                  ELSE DecodeHeader64(src, order)
    IN  IF ReadFullErr(src, size) # "nil" THEN ReadFullErr(src, size)
        ELSE IF ~DigitsEqual(hdr.Version, fv) THEN "hdrversion"
        ELSE IF ShoffMissing(DigitsEqual(hdr.Shoff, 0), hdr.Shnum) THEN "shoff"
        ELSE IF StrndxOutOfRange(hdr.Shnum, hdr.Shstrndx) THEN "shstrndx"
        ELSE IF hdr.Shnum <= 0 THEN "nosections"
        ELSE "nil"

\* Lines 196-270: everything ValidateHeader does after io.ReadAll succeeded,
\* given the limit writer's buffer buf and the bytes b.
CheckHeaderBytes(buf, b) ==
    IF Len(buf) = 0 THEN "EOF"                      \* buf.Read on an empty buffer
    ELSE LET ident == ReadIdent(buf)
             c     == ident[EI_CLASS + 1]
             d     == ident[EI_DATA + 1]
             fv    == ident[EI_VERSION + 1]
         IN  IF Take(ident, 4) # ElfMagic THEN "magic"
             ELSE IF c \notin {ELFCLASS32, ELFCLASS64} THEN "class"
             ELSE IF d \notin {ELFDATA2LSB, ELFDATA2MSB} THEN "data"
             ELSE IF fv # EV_CURRENT THEN "version"
             ELSE CheckFileHeader(c, IF d = ELFDATA2LSB THEN "LE" ELSE "BE", fv, b)

(***************************************************************************)
(* The streams handed to ValidateHeader.  A stream is what an io.Reader    *)
(* delivers: its bytes, at most `chunk` of them per Read, and after the    *)
(* last byte either io.EOF or (fail) an error of the reader's own.  The    *)
(* bytes are a header written field by field in byte order enc, cut or     *)
(* padded to a length; hdr remembers what was written.                     *)
(***************************************************************************)
\* v (0 <= v < 65536) as an n-byte unsigned integer in byte order enc.
EncodeField(v, n, enc) ==
    LET be == Zeros(n - 2) \o <<v \div 256, v % 256>>
    IN IF enc = "LE" THEN Reverse(be) ELSE be

EncodeIdent(h) == h.magic \o <<h.class, h.data, h.iver>> \o Zeros(9)

\* elf.Header32: Ident, Type, Machine, Version, Entry, Phoff, Shoff, Flags,
\* Ehsize, Phentsize, Phnum, Shentsize, Shnum, Shstrndx.
EncodeHeader32(h) ==
    LET E(v, n) == EncodeField(v, n, h.enc)
    IN EncodeIdent(h) \o E(2, 2) \o E(3, 2) \o E(h.hver, 4) \o E(4096, 4)
         \o E(52, 4) \o E(h.shoff, 4) \o E(0, 4) \o E(52, 2) \o E(32, 2)
         \o E(1, 2) \o E(40, 2) \o E(h.shnum, 2) \o E(h.shstrndx, 2)

\* elf.Header64: the same fields, Entry, Phoff and Shoff eight bytes wide.
EncodeHeader64(h) ==
    LET E(v, n) == EncodeField(v, n, h.enc)
    IN EncodeIdent(h) \o E(2, 2) \o E(62, 2) \o E(h.hver, 4) \o E(4096, 8)
         \o E(64, 8) \o E(h.shoff, 8) \o E(0, 4) \o E(64, 2) \o E(56, 2)
         \o E(1, 2) \o E(64, 2) \o E(h.shnum, 2) \o E(h.shstrndx, 2)

EncodeHeader(h) ==
    IF h.class = ELFCLASS32 THEN EncodeHeader32(h) ELSE EncodeHeader64(h)

HeaderFields ==
    [ magic    : {ElfMagic, <<127, 69, 76, 71>>},
      class    : 1..3,
      data     : 1..3,
      iver     : 1..2,
      enc      : {"LE", "BE"},
      hver     : 1..2,
      shoff    : {0, 64},
      shnum    : 0..MaxShnum,
      shstrndx : 0..MaxShnum ]

StreamLengths == {0, 3, 4, 5, 7, 15, 16, 51, 52, 63, 64, HeaderReadLimit + MaxExtra}

\* The header h followed by bytes of value 255, cut to n bytes.
StreamBytes(h, n) ==
    Take(EncodeHeader(h) \o [i \in 1..(HeaderReadLimit + MaxExtra) |-> 255], n)

MkStream(h, n, fail, chunk) ==
    [bytes |-> StreamBytes(h, n), fail |-> fail, chunk |-> chunk, hdr |-> h]

Streams ==
    {MkStream(h, n, fl, ch) : h \in HeaderFields, n \in StreamLengths,
                              fl \in BOOLEAN, ch \in {24, 100}}

(***************************************************************************)
(* The files handed to the path-taking functions.  A file is what          *)
(* elf.Open(path) finds: openErr when it cannot be opened as ELF, else its *)
(* sections in order and what f.Symbols() would return.                    *)
(***************************************************************************)
Sec(name, type) == [name |-> name, type |-> type]

NoFile == [openErr |-> TRUE, sections |-> <<>>, symsErr |-> TRUE, syms |-> <<>>]

\* The locals of an activation: the opened *elf.File f, isGo, and for
\* ValidateHeader the limit writer's buffer buf, the bytes b read so far and
\* the LimitReader's remaining count n.
LocInit == [f |-> NoFile, isGo |-> FALSE, symsRead |-> FALSE,
            buf |-> <<>>, b |-> <<>>, n |-> 0]

FrameShared(p) == 1

\* Each call runs in an activation of its own: its locals (f, isGo, buf, b,
\* ident, ...) are declared inside the function, none at package level.
Frame(p) == p

\* Sections of the files given to the Go and symbol-table detectors.
GoSectionKinds ==
    { Sec(".note.go.buildid", "NOTE"), Sec(".gopclntab", "PROGBITS"),
      Sec(".gopclntab", "NOBITS"), Sec(".symtab", "SYMTAB"),
      Sec(".dynsym", "DYNSYM"), Sec(".text", "PROGBITS"),
      Sec(".debug_info", "PROGBITS") }

SymbolNames == {"runtime.main", "main.main", "runtime.buildVersion", "main.init"}

HasSymtab(ss) == \E i \in 1..Len(ss) : ss[i].type = "SYMTAB"

\* Without a SHT_SYMTAB section f.Symbols() can only fail; with one it may
\* fail (a table that cannot be read) or give the symbols.
GoFiles ==
    {NoFile}
    \cup { [openErr |-> FALSE, sections |-> ss, symsErr |-> TRUE, syms |-> <<>>] :
             ss \in SeqsUpTo(GoSectionKinds, MaxSections) }
    \cup { [openErr |-> FALSE, sections |-> ss, symsErr |-> FALSE, syms |-> sy] :
             ss \in {t \in SeqsUpTo(GoSectionKinds, MaxSections) : HasSymtab(t)},
             sy \in SeqsUpTo(SymbolNames, MaxSyms) }

\* Sections of the files given to HasDWARF: every pairing of a prefix (the
\* three debug prefixes and one that is none) with a suffix (the five kinds,
\* another kind, and nothing), loaded or not, and a code section.
DwarfNamePrefixes == {".debug_", ".zdebug_", "__debug_", "_debug_"}

DwarfNameSuffixes == {"abbrev", "info", "str", "line", "ranges", "loc", ""}

DwarfSectionKinds ==
    { Sec(pre \o suf, ty) : pre \in DwarfNamePrefixes, suf \in DwarfNameSuffixes,
                            ty \in {"PROGBITS", "NOBITS"} }
    \cup { Sec(".text", "PROGBITS") }

DwarfFiles ==
    {NoFile}
    \cup { [openErr |-> FALSE, sections |-> ss, symsErr |-> TRUE, syms |-> <<>>] :
             ss \in SeqsUpTo(DwarfSectionKinds, MaxDwarfSections) }

(***************************************************************************)
(* State.                                                                  *)
(***************************************************************************)
NoArg == [none |-> TRUE]

\* The function literal assigned to the package-level variable dwarfSuffix
\* (lines 28-39): from a section's name to what follows its debug prefix.
\* The variable holds the function value, written "func1" here.
DwarfSuffixOf(name) ==
    IF Len(name) >= 7 /\ SubSeq(name, 1, 7) = ".debug_" THEN SubSeq(name, 8, Len(name))
    ELSE IF Len(name) >= 8 /\ SubSeq(name, 1, 8) = ".zdebug_" THEN SubSeq(name, 9, Len(name))
    ELSE IF Len(name) >= 8 /\ SubSeq(name, 1, 8) = "__debug_" THEN SubSeq(name, 9, Len(name))
    ELSE ""

\* A call fn(s) of a function value (line 65).
CallFunc(fn, name) == IF fn = "func1" THEN DwarfSuffixOf(name) ELSE ""

InitWith(cs) ==
    /\ callers = cs
    /\ pc = [p \in cs |-> "idle"]
    /\ op = [p \in cs |-> "none"]
    /\ arg = [p \in cs |-> NoArg]
    /\ pos = [p \in cs |-> 0]
    /\ loc = [p \in cs |-> LocInit]
    /\ result = [p \in cs |-> NoResult]
    /\ opens = [p \in cs |-> 0]
    /\ closes = [p \in cs |-> 0]
    /\ dwarfSuffix = "func1"

\* Caller p calls function o with argument a: a fresh activation.
Enter(p, o, a, first, l) ==
    /\ pc[p] = "idle"
    /\ pc' = [pc EXCEPT ![p] = first]
    /\ op' = [op EXCEPT ![p] = o]
    /\ arg' = [arg EXCEPT ![p] = a]
    /\ pos' = [pos EXCEPT ![p] = 0]
    /\ loc' = [loc EXCEPT ![Frame(p)] = l]
    /\ result' = [result EXCEPT ![p] = NoResult]
    /\ opens' = [opens EXCEPT ![p] = 0]
    /\ closes' = [closes EXCEPT ![p] = 0]
    /\ UNCHANGED <<callers, dwarfSuffix>>

\* The call has returned and the caller has taken its result.
Return(p) ==
    /\ pc[p] = "done"
    /\ pc' = [pc EXCEPT ![p] = "idle"]
    /\ op' = [op EXCEPT ![p] = "none"]
    /\ arg' = [arg EXCEPT ![p] = NoArg]
    /\ pos' = [pos EXCEPT ![p] = 0]
    /\ loc' = [loc EXCEPT ![Frame(p)] = LocInit]
    /\ result' = [result EXCEPT ![p] = NoResult]
    /\ opens' = [opens EXCEPT ![p] = 0]
    /\ closes' = [closes EXCEPT ![p] = 0]
    /\ UNCHANGED <<callers, dwarfSuffix>>

(***************************************************************************)
(* ValidateHeader(r), lines 178-271.                                       *)
(***************************************************************************)
\* Lines 180-187: buf, the limit writer over it, the tee of the limit reader.
CallValidateHeader(p, S) ==
    /\ pc[p] = "idle"
    /\ \E s \in S :
         Enter(p, "ValidateHeader", s, "readall", [LocInit EXCEPT !.n = HeaderReadLimit])

\* Line 190, one Read of io.ReadAll on TeeReader(LimitReader(r, 64), w).
\* The limit reader answers io.EOF itself once its count is used up; below
\* the limit it passes the read on, shortened to the count, and the tee
\* writes what was read to w.  The error of a failed read is returned (192).
ReadAll(p) ==
    LET l == loc[Frame(p)]
        s == arg[p]
        k == Min(Min(s.chunk, l.n), Len(s.bytes) - pos[p])
        data == SubSeq(s.bytes, pos[p] + 1, pos[p] + k)
    IN
    /\ pc[p] = "readall"
    /\ \/ /\ l.n > 0
          /\ pos[p] < Len(s.bytes)
          /\ loc' = [loc EXCEPT ![Frame(p)] =
                       [l EXCEPT !.b = l.b \o data,
                                 !.buf = LimitWrite(l.buf, data),
                                 !.n = l.n - k]]
          /\ pos' = [pos EXCEPT ![p] = pos[p] + k]
          /\ UNCHANGED <<pc, result>>
       \/ /\ \/ l.n <= 0
             \/ pos[p] >= Len(s.bytes) /\ ~s.fail
          /\ pc' = [pc EXCEPT ![p] = "check"]
          /\ UNCHANGED <<loc, pos, result>>
       \/ /\ l.n > 0
          /\ pos[p] >= Len(s.bytes)
          /\ s.fail
          /\ result' = [result EXCEPT ![p] = Ret("none", "reader")]
          /\ pc' = [pc EXCEPT ![p] = "done"]
          /\ UNCHANGED <<loc, pos>>
    /\ UNCHANGED <<callers, op, arg, opens, closes, dwarfSuffix>>

\* Lines 194-270: the identification bytes from buf, then the file header
\* from b.
CheckHeader(p) ==
    LET l == loc[Frame(p)] IN
    /\ pc[p] = "check"
    /\ result' = [result EXCEPT ![p] = Ret("none", CheckHeaderBytes(l.buf, l.b))]
    /\ pc' = [pc EXCEPT ![p] = "done"]
    /\ UNCHANGED <<callers, op, arg, pos, loc, opens, closes, dwarfSuffix>>

(***************************************************************************)
(* The path-taking functions.  Each opens the file, registers the deferred *)
(* Close, computes its answer and returns; the deferred call runs between  *)
(* the return statement and the return to the caller.                      *)
(***************************************************************************)
Bool(b) == IF b THEN "true" ELSE "false"

\* Whether the function registers `defer f.Close()` after a successful open
\* (lines 47, 88, 136, 152, 168).
DefersCloseButValidateFile(o) == o # "ValidateFile"

DefersClose(o) == TRUE

CallFile(p, o, F) ==
    /\ pc[p] = "idle"
    /\ \E f \in F : Enter(p, o, f, "open", LocInit)

\* elf.Open(path) and the check of its error: lines 43-47, 84-88, 132-136,
\* 148-152, 164-168.
Open(p) ==
    /\ pc[p] = "open"
    /\ \/ /\ arg[p].openErr
          /\ result' = [result EXCEPT ![p] =
                          Ret(IF op[p] = "ValidateFile" THEN "none" ELSE "false", "open")]
          /\ pc' = [pc EXCEPT ![p] = "done"]
          /\ UNCHANGED <<loc, opens>>
       \/ /\ ~arg[p].openErr
          /\ loc' = [loc EXCEPT ![Frame(p)] = [@ EXCEPT !.f = arg[p]]]
          /\ opens' = [opens EXCEPT ![p] = @ + 1]
          /\ pc' = [pc EXCEPT ![p] =
                      IF op[p] = "IsSymbolizableGoObjFile" THEN "scan" ELSE "body"]
          /\ UNCHANGED result
    /\ UNCHANGED <<callers, op, arg, pos, closes, dwarfSuffix>>

\* The return statement of a function that opened the file: the result is
\* set, the deferred calls are still to run.
ReturnFrom(p, r) ==
    /\ result' = [result EXCEPT ![p] = r]
    /\ pc' = [pc EXCEPT ![p] = "ret"]

\* The deferred f.Close() runs, then the call is over.
RunDeferred(p) ==
    /\ pc[p] = "ret"
    /\ closes' = [closes EXCEPT ![p] = @ + (IF DefersClose(op[p]) THEN 1 ELSE 0)]
    /\ pc' = [pc EXCEPT ![p] = "done"]
    /\ UNCHANGED <<callers, op, arg, pos, loc, result, opens, dwarfSuffix>>

DwarfSectionsNoRanges == {"abbrev", "info", "str", "line"}

\* Line 62: the keys of the map `sections`.
DwarfSections == {"abbrev", "info", "str", "line", "ranges"}

\* Lines 58-78: the suffixes of the sections that pass the three tests of the
\* loop body; fn is the value of the package variable dwarfSuffix.
readableDWARFSections(f, fn) ==
    { CallFunc(fn, f.sections[i].name) : i \in
        { j \in 1..Len(f.sections) :
            /\ CallFunc(fn, f.sections[j].name) # ""
            /\ CallFunc(fn, f.sections[j].name) \in DwarfSections
            /\ f.sections[j].type = "PROGBITS" } }

\* Lines 49-54.
HasDWARFVerdict(f, fn) ==
    Ret(Bool(Cardinality(readableDWARFSections(f, fn)) > 0), "nil")

HasDWARF(p) ==
    /\ pc[p] = "body"
    /\ op[p] = "HasDWARF"
    /\ ReturnFrom(p, HasDWARFVerdict(loc[Frame(p)].f, dwarfSuffix))
    /\ UNCHANGED <<callers, op, arg, pos, loc, opens, closes, dwarfSuffix>>

\* Lines 91-95 and 138-142: some section is named ".note.go.buildid".
HasBuildIDNote(f) ==
    \E i \in 1..Len(f.sections) : f.sections[i].name = ".note.go.buildid"

\* Lines 138-143.
IsGoObjFileVerdict(f) == Ret(Bool(HasBuildIDNote(f)), "nil")

IsGoObjFile(p) ==
    /\ pc[p] = "body"
    /\ op[p] = "IsGoObjFile"
    /\ ReturnFrom(p, IsGoObjFileVerdict(loc[Frame(p)].f))
    /\ UNCHANGED <<callers, op, arg, pos, loc, opens, closes, dwarfSuffix>>

\* Lines 154-159.
HasSymbolsVerdict(f) ==
    Ret(Bool(\E i \in 1..Len(f.sections) :
                f.sections[i].type \in {"SYMTAB", "DYNSYM"}), "nil")

HasSymbols(p) ==
    /\ pc[p] = "body"
    /\ op[p] = "HasSymbols"
    /\ ReturnFrom(p, HasSymbolsVerdict(loc[Frame(p)].f))
    /\ UNCHANGED <<callers, op, arg, pos, loc, opens, closes, dwarfSuffix>>

ValidateFileVerdictAtMostOne(f) ==
    Ret("none", IF Len(f.sections) <= 1 THEN "nosections" ELSE "nil")

\* Lines 171-174.
ValidateFileVerdict(f) ==
    Ret("none", IF Len(f.sections) = 0 THEN "nosections" ELSE "nil")

ValidateFile(p) ==
    /\ pc[p] = "body"
    /\ op[p] = "ValidateFile"
    /\ ReturnFrom(p, ValidateFileVerdict(loc[Frame(p)].f))
    /\ UNCHANGED <<callers, op, arg, pos, loc, opens, closes, dwarfSuffix>>

(***************************************************************************)
(* IsSymbolizableGoObjFile(path), lines 82-127.                            *)
(***************************************************************************)
\* f.Symbols() of debug/elf, called at line 99: an error when the file has
\* no SHT_SYMTAB section or its symbol table cannot be read, else the names.
Symbols(f) ==
    IF f.symsErr \/ ~(\E i \in 1..Len(f.sections) : f.sections[i].type = "SYMTAB")
    THEN [err |-> TRUE, syms |-> <<>>]
    ELSE [err |-> FALSE, syms |-> f.syms]

\* Lines 103-111: some symbol has one of the three names.
HasGoSymbol(syms) ==
    \E i \in 1..Len(syms) :
        \/ syms[i] = "runtime.main" \/ syms[i] = "main.main"
        \/ syms[i] = "runtime.buildVersion"

\* f.Section(name) of debug/elf, called at line 120: the first section of
\* that name; the empty sequence stands for nil.
Section(f, name) ==
    LET I == {i \in 1..Len(f.sections) : f.sections[i].name = name}
    IN IF I = {} THEN <<>>
       ELSE <<f.sections[CHOOSE i \in I : \A j \in I : i <= j]>>

SymbolsWantedAlways(isGo) == TRUE

\* Line 98: the symbols are read only when no build-id note was found.
SymbolsWanted(isGo) == ~isGo

\* Lines 90-95: the loop over the sections.
ScanSections(p) ==
    LET l == loc[Frame(p)]
        isGo == HasBuildIDNote(l.f)
    IN
    /\ pc[p] = "scan"
    /\ loc' = [loc EXCEPT ![Frame(p)] = [l EXCEPT !.isGo = isGo]]
    /\ pc' = [pc EXCEPT ![p] = IF SymbolsWanted(isGo) THEN "syms" ELSE "pclntab"]
    /\ UNCHANGED <<callers, op, arg, pos, result, opens, closes, dwarfSuffix>>

\* Lines 99-111: f.Symbols(), its error returned, else the loop over the
\* symbols.
ReadSymbols(p) ==
    LET l == loc[Frame(p)]
        r == Symbols(l.f)
    IN
    /\ pc[p] = "syms"
    /\ \/ /\ r.err
          /\ loc' = [loc EXCEPT ![Frame(p)] = [l EXCEPT !.symsRead = TRUE]]
          /\ ReturnFrom(p, Ret("false", "symbols"))
       \/ /\ ~r.err
          /\ loc' = [loc EXCEPT ![Frame(p)] =
                       [l EXCEPT !.symsRead = TRUE,
                                 !.isGo = l.isGo \/ HasGoSymbol(r.syms)]]
          /\ pc' = [pc EXCEPT ![p] = "pclntab"]
          /\ UNCHANGED result
    /\ UNCHANGED <<callers, op, arg, pos, opens, closes, dwarfSuffix>>

\* Lines 114-126.
SymbolizableVerdict(f, isGo) ==
    IF ~isGo THEN Ret("false", "nil")
    ELSE LET sec == Section(f, ".gopclntab")
         IN IF sec # <<>> /\ sec[1].type = "PROGBITS"
            THEN Ret("true", "nil")
            ELSE Ret("false", "nopclntab")

CheckPclntab(p) ==
    LET l == loc[Frame(p)] IN
    /\ pc[p] = "pclntab"
    /\ ReturnFrom(p, SymbolizableVerdict(l.f, l.isGo))
    /\ UNCHANGED <<callers, op, arg, pos, loc, opens, closes, dwarfSuffix>>

(***************************************************************************)
(* Specifications.                                                         *)
(***************************************************************************)
InitHeader == InitWith({1})

NextHeader ==
    \/ \E p \in callers : CallValidateHeader(p, Streams)
    \/ \E p \in callers : ReadAll(p)
    \/ \E p \in callers : CheckHeader(p)
    \/ \E p \in callers : Return(p)

\* One caller validating headers.
SpecHeader == InitHeader /\ [][NextHeader]_vars

InitFile == InitWith({1})

CallHasDWARF(p, F) == CallFile(p, "HasDWARF", F)

CallIsSymbolizableGoObjFile(p, F) == CallFile(p, "IsSymbolizableGoObjFile", F)

CallIsGoObjFile(p, F) == CallFile(p, "IsGoObjFile", F)

CallHasSymbols(p, F) == CallFile(p, "HasSymbols", F)

CallValidateFile(p, F) == CallFile(p, "ValidateFile", F)

FileSteps ==
    \/ \E p \in callers : Open(p)
    \/ \E p \in callers : HasDWARF(p)
    \/ \E p \in callers : IsGoObjFile(p)
    \/ \E p \in callers : HasSymbols(p)
    \/ \E p \in callers : ValidateFile(p)
    \/ \E p \in callers : ScanSections(p)
    \/ \E p \in callers : ReadSymbols(p)
    \/ \E p \in callers : CheckPclntab(p)
    \/ \E p \in callers : RunDeferred(p)

NextFile ==
    \/ \E p \in callers : CallHasDWARF(p, DwarfFiles)
    \/ \E p \in callers : CallIsSymbolizableGoObjFile(p, GoFiles)
    \/ \E p \in callers : CallIsGoObjFile(p, GoFiles)
    \/ \E p \in callers : CallHasSymbols(p, GoFiles)
    \/ \E p \in callers : CallValidateFile(p, GoFiles)
    \/ FileSteps
    \/ \E p \in callers : Return(p)

\* One caller using the path-taking functions.
SpecFile == InitFile /\ [][NextFile]_vars

\* A few files and streams for the runs with several callers.
SmallFiles ==
    { NoFile,
      [openErr |-> FALSE, symsErr |-> FALSE, syms |-> <<"main.main">>,
       sections |-> <<Sec(".symtab", "SYMTAB"), Sec(".debug_info", "PROGBITS")>>] }

SmallHeader ==
    [magic |-> ElfMagic, class |-> ELFCLASS64, data |-> ELFDATA2LSB, iver |-> EV_CURRENT,
     enc |-> "LE", hver |-> EV_CURRENT, shoff |-> 64, shnum |-> 2, shstrndx |-> 1]

SmallStreams ==
    { MkStream(SmallHeader, HeaderReadLimit + MaxExtra, TRUE, 24),
      MkStream(SmallHeader, 7, FALSE, 24) }

InitConc == InitWith(1..NCallers)

NextConc ==
    \/ \E p \in callers : CallValidateHeader(p, SmallStreams)
    \/ \E p \in callers : ReadAll(p)
    \/ \E p \in callers : CheckHeader(p)
    \/ \E p \in callers : CallHasDWARF(p, SmallFiles)
    \/ \E p \in callers : CallIsSymbolizableGoObjFile(p, SmallFiles)
    \/ \E p \in callers : CallIsGoObjFile(p, SmallFiles)
    \/ \E p \in callers : CallHasSymbols(p, SmallFiles)
    \/ \E p \in callers : CallValidateFile(p, SmallFiles)
    \/ FileSteps
    \/ \E p \in callers : Return(p)

\* Several callers, their calls interleaved step by step.
SpecConc == InitConc /\ [][NextConc]_vars

(***************************************************************************)
(* Properties of ValidateHeader (checked under SpecHeader).                *)
(***************************************************************************)
\* Caller p's call of function o is over and result[p] is what it returned.
Returned(p, o) == pc[p] = "done" /\ op[p] = o

\* A path-taking call of o has reached its return statement or is over.
Answered(p, o) == pc[p] \in {"ret", "done"} /\ op[p] = o

\* The stream ends before the header its class byte announces is complete.
Truncated(bs) ==
    \/ Len(bs) < IdentSize
    \/ bs[EI_CLASS + 1] = ELFCLASS32 /\ Len(bs) < Header32Size
    \/ bs[EI_CLASS + 1] = ELFCLASS64 /\ Len(bs) < Header64Size

\* C1: ValidateHeader reports a truncated stream (shorter than 16 bytes, or
\* at least 16 bytes but shorter than the 52- or 64-byte header of its class)
\* as a read error, whatever its bytes, never as a format error or success.
C1_TruncatedIsReadError ==
    \A p \in callers :
        Returned(p, "ValidateHeader") /\ Truncated(arg[p].bytes)
            => result[p].err \in ReadErrors

\* The reader returned an error of its own before 64 bytes were read.
ReaderFailed(s) == s.fail /\ Len(s.bytes) < HeaderReadLimit

\* The value v (below 256) written in byte order enc, as a reader using the
\* byte order the data byte announces sees it in a field of n bytes.
OrderOf(d) == IF d = ELFDATA2LSB THEN "LE" ELSE "BE"

SeenVersion(h) == IF h.enc = OrderOf(h.data) THEN h.hver ELSE h.hver * 16777216

SeenHalf(h, v) == IF h.enc = OrderOf(h.data) THEN v ELSE (v % 256) * 256 + (v \div 256)

\* The identification and the fields before the section table are in order.
GoodUpToSections(s) ==
    LET h == s.hdr IN
    /\ ~ReaderFailed(s)
    /\ h.magic = ElfMagic
    /\ h.class \in {ELFCLASS32, ELFCLASS64}
    /\ h.data \in {ELFDATA2LSB, ELFDATA2MSB}
    /\ h.iver = EV_CURRENT
    /\ Len(s.bytes) >= (IF h.class = ELFCLASS32 THEN Header32Size ELSE Header64Size)
    /\ SeenVersion(h) = h.iver

\* What the claim calls a header ValidateHeader accepts.
WellFormed(s) ==
    LET h == s.hdr IN
    /\ GoodUpToSections(s)
    /\ h.shoff # 0
    /\ SeenHalf(h, h.shnum) >= 1
    /\ SeenHalf(h, h.shstrndx) < SeenHalf(h, h.shnum)

OutcomeOfPrefix(s) ==
    IF ReaderFailed(s) THEN "reader"
    ELSE CheckHeaderBytes(Take(s.bytes, IdentSize), Take(s.bytes, HeaderReadLimit))

\* C6: ValidateHeader takes at most 64 bytes from the stream, however long it
\* is, keeps at most 64 of them (16 more in the limit writer's buffer), and
\* its result is a function of the first 64
\* bytes (and of how a shorter stream ends): what follows them, a reader
\* error included, changes nothing.
C6_ReadBounded ==
    \A p \in callers :
        op[p] = "ValidateHeader" =>
            /\ pos[p] <= 64
            /\ Len(loc[Frame(p)].b) <= 64
            /\ Len(loc[Frame(p)].buf) <= 16
            /\ pc[p] = "done" => result[p].err = OutcomeOfPrefix(arg[p])

\* C6's case: a stream longer than 64 bytes whose reader fails after them
\* was validated, 64 bytes of it read.
C6_Witness ==
    \E p \in callers :
        /\ Returned(p, "ValidateHeader")
        /\ Len(arg[p].bytes) > 64
        /\ arg[p].fail
        /\ pos[p] = 64
        /\ result[p].err = "nil"

(***************************************************************************)
(* Properties of the path-taking functions (checked under SpecFile).       *)
(***************************************************************************)
GoSymbolNames == {"runtime.main", "main.main", "runtime.buildVersion"}

NamedSection(f, name) == \E i \in 1..Len(f.sections) : f.sections[i].name = name

\* The symbols of f that can be read (none when the table is absent or
\* cannot be read).
ReadableSymbols(f) ==
    IF f.symsErr \/ ~HasSymtab(f.sections) THEN {} ELSE {f.syms[i] : i \in 1..Len(f.syms)}

\* C3: for every opened file with no section named ".note.go.buildid" and no
\* symbol named runtime.main, main.main or runtime.buildVersion, the symbol
\* list empty, absent or unreadable included, IsSymbolizableGoObjFile returns
\* (false, nil): "not this toolchain" is never an error.
C3_NotGoIsFalseNoError ==
    \A p \in callers :
        /\ Answered(p, "IsSymbolizableGoObjFile")
        /\ ~arg[p].openErr
        /\ ~NamedSection(arg[p], ".note.go.buildid")
        /\ ReadableSymbols(arg[p]) \cap GoSymbolNames = {}
        => result[p] = Ret("false", "nil")

\* The file is one IsSymbolizableGoObjFile takes for the Go toolchain's.
ClassifiedGo(f) ==
    \/ NamedSection(f, ".note.go.buildid")
    \/ ReadableSymbols(f) \cap GoSymbolNames # {}

SomeLoadedPclntab(f) ==
    \E i \in 1..Len(f.sections) :
        f.sections[i].name = ".gopclntab" /\ f.sections[i].type = "PROGBITS"

\* C4: for every file classified as the Go toolchain's, the result is
\* (true, nil) if and only if some section named ".gopclntab" has type
\* PROGBITS (names need not be unique), and (false, NotSymbolizable)
\* otherwise.
C4_SymbolizableIffSomeLoadedPclntab ==
    \A p \in callers :
        Answered(p, "IsSymbolizableGoObjFile") /\ ~arg[p].openErr /\ ClassifiedGo(arg[p])
            => result[p] = IF SomeLoadedPclntab(arg[p]) THEN Ret("true", "nil")
                           ELSE Ret("false", "nopclntab")

RecognizedDwarfNames ==
    { pre \o suf : pre \in {".debug_", ".zdebug_", "__debug_"},
                   suf \in {"abbrev", "info", "str", "line", "ranges"} }

LoadedDwarfSection(f) ==
    \E i \in 1..Len(f.sections) :
        f.sections[i].name \in RecognizedDwarfNames /\ f.sections[i].type = "PROGBITS"

\* C5: HasDWARF returns true if and only if some section is named one of the
\* three prefixes followed by exactly one of abbrev, info, str, line, ranges
\* and has type PROGBITS; a recognized name on a section of another type, or
\* a debug prefix with another suffix, never makes it true.
C5_HasDWARFIffLoadedSection ==
    \A p \in callers :
        Answered(p, "HasDWARF") /\ ~arg[p].openErr
            => result[p] = Ret(Bool(LoadedDwarfSection(arg[p])), "nil")

\* C5's case: HasDWARF answered true for a file that also has a section with
\* a recognized name that is not PROGBITS.
C5_Witness ==
    \E p \in callers :
        /\ Returned(p, "HasDWARF")
        /\ result[p] = Ret("true", "nil")
        /\ arg[p].sections[1] = Sec(".zdebug_ranges", "NOBITS")
        /\ arg[p].sections[2] = Sec("__debug_ranges", "PROGBITS")

PathOps == {"HasDWARF", "IsSymbolizableGoObjFile", "IsGoObjFile", "HasSymbols", "ValidateFile"}

\* C7: in every path-taking function a successful open is followed by
\* exactly one close before the call returns, on every exit path, and not
\* before the return statement; when the open fails nothing is closed and
\* the open failure is the error returned.
C7_OpenedOnceClosedOnce ==
    \A p \in callers :
        op[p] \in PathOps =>
            /\ closes[p] <= opens[p]
            /\ pc[p] \in {"body", "scan", "syms", "pclntab", "ret"}
                 => opens[p] = 1 /\ closes[p] = 0
            /\ pc[p] = "done" /\ ~arg[p].openErr => opens[p] = 1 /\ closes[p] = 1
            /\ pc[p] = "done" /\ arg[p].openErr
                 => opens[p] = 0 /\ closes[p] = 0 /\ result[p].err = "open"

\* C7's case: the early return on a symbol-read error, the file closed once.
C7_Witness ==
    \E p \in callers :
        /\ Returned(p, "IsSymbolizableGoObjFile")
        /\ result[p].err = "symbols"
        /\ opens[p] = 1
        /\ closes[p] = 1

\* C8: for an opened file with no sections HasDWARF, HasSymbols and
\* IsGoObjFile return (false, nil) and ValidateFile returns an error; for an
\* opened file with at least one section ValidateFile returns nil.
C8_ZeroSections ==
    \A p \in callers :
        pc[p] = "done" /\ op[p] \in PathOps /\ ~arg[p].openErr =>
            /\ Len(arg[p].sections) = 0 /\ op[p] \in {"HasDWARF", "HasSymbols", "IsGoObjFile"}
                 => result[p] = Ret("false", "nil")
            /\ Len(arg[p].sections) = 0 /\ op[p] = "ValidateFile"
                 => result[p].err # "nil"
            /\ Len(arg[p].sections) >= 1 /\ op[p] = "ValidateFile"
                 => result[p].err = "nil"

\* C8's case: ValidateFile opened a file with no sections and returned its
\* error.
C8_Witness ==
    \E p \in callers :
        /\ Returned(p, "ValidateFile")
        /\ ~arg[p].openErr
        /\ Len(arg[p].sections) = 0
        /\ result[p].err = "nosections"

\* C10: on every file for which IsGoObjFile returns true,
\* IsSymbolizableGoObjFile returns (true, nil) or the NotSymbolizable error,
\* never (false, nil), and never calls f.Symbols(), so that an absent or
\* unreadable symbol table cannot make it fail.
C10_NoteDecidesWithoutSymbols ==
    \A p \in callers :
        /\ Answered(p, "IsSymbolizableGoObjFile")
        /\ ~arg[p].openErr
        /\ IsGoObjFileVerdict(arg[p]) = Ret("true", "nil")
        => /\ result[p] \in {Ret("true", "nil"), Ret("false", "nopclntab")}
           /\ ~loc[Frame(p)].symsRead

\* C10's case: a file with the note and a loaded .gopclntab whose symbols
\* cannot be read was found symbolizable.
C10_Witness ==
    \E p \in callers :
        /\ Returned(p, "IsSymbolizableGoObjFile")
        /\ NamedSection(arg[p], ".note.go.buildid")
        /\ NamedSection(arg[p], ".symtab")
        /\ arg[p].symsErr
        /\ result[p] = Ret("true", "nil")

(***************************************************************************)
(* Independence of calls (checked under SpecConc).                         *)
(***************************************************************************)
\* What function o returns for argument a when its steps run one after the
\* other with nothing in between.
SequentialOutcome(o, a) ==
    IF o = "ValidateHeader" THEN Ret("none", OutcomeOfPrefix(a))
    ELSE IF a.openErr THEN Ret(IF o = "ValidateFile" THEN "none" ELSE "false", "open")
    ELSE IF o = "HasDWARF" THEN HasDWARFVerdict(a, "func1")
    ELSE IF o = "IsGoObjFile" THEN IsGoObjFileVerdict(a)
    ELSE IF o = "HasSymbols" THEN HasSymbolsVerdict(a)
    ELSE IF o = "ValidateFile" THEN ValidateFileVerdict(a)
    ELSE IF HasBuildIDNote(a) THEN SymbolizableVerdict(a, TRUE)
    ELSE IF Symbols(a).err THEN Ret("false", "symbols")
    ELSE SymbolizableVerdict(a, HasGoSymbol(Symbols(a).syms))

\* A call that ran alone returned SequentialOutcome (SpecHeader and SpecFile
\* have one caller).
AloneIsSequential ==
    \A p \in callers : pc[p] = "done" => result[p] = SequentialOutcome(op[p], arg[p])

\* Calls that are over agree with one another and with the call run alone.
Agreement ==
    \A p \in callers :
        pc[p] = "done" =>
            /\ result[p] = SequentialOutcome(op[p], arg[p])
            /\ \A q \in callers :
                 pc[q] = "done" /\ op[q] = op[p] /\ arg[q] = arg[p]
                    => result[q] = result[p]

\* The step leaves everything of caller q as it was.
Untouched(q) ==
    /\ pc'[q] = pc[q]
    /\ op'[q] = op[q]
    /\ arg'[q] = arg[q]
    /\ pos'[q] = pos[q]
    /\ loc'[Frame(q)] = loc[Frame(q)]
    /\ result'[q] = result[q]
    /\ opens'[q] = opens[q]
    /\ closes'[q] = closes[q]

\* C9: calls are independent.  Every step belongs to one call and changes
\* nothing another call reads, the package variable dwarfSuffix is never
\* assigned, and so under any interleaving each call returns what it returns
\* when run alone, and calls with the same function and argument, concurrent
\* or one after the other, return the same.
C9_CallsIndependent ==
    [][ /\ dwarfSuffix' = dwarfSuffix
        /\ \E p \in callers : \A q \in callers \ {p} : Untouched(q)
        /\ Agreement' ]_vars

\* C9's case: two callers were given the same stream, longer than what is
\* read, their reads interleaved, and both calls are over.
C9_Witness ==
    \E p \in callers, q \in callers :
        /\ p # q
        /\ Returned(p, "ValidateHeader")
        /\ Returned(q, "ValidateHeader")
        /\ arg[p] = arg[q]
        /\ Len(arg[p].bytes) > HeaderReadLimit
        /\ result[p] = Ret("none", "nil")
        /\ result[q] = Ret("none", "nil")

====
